---- MODULE Spec2Model ----
(***************************************************************************)
(* Speech playback of the Blog Content Analyzer.                           *)
(*                                                                         *)
(*   svc     the module-level state of services/speechService.ts           *)
(*   synth   window.speechSynthesis as the service sees and drives it:     *)
(*           the platform's utterance queue, its speaking/paused flags,    *)
(*           the voice list, the onvoiceschanged slot and the utterance    *)
(*           events the platform has queued for dispatch                   *)
(*   promise the promise returned by each speakText call                   *)
(*   state   the React state of App.tsx (speech flags, insights, error)    *)
(*   nextId  identity of the next SpeechSynthesisUtterance object          *)
(*   stopped stopSpeaking has run and no speakText has installed an        *)
(*           utterance since                                               *)
(*   mounted the App component is mounted: its effects are live (the poll  *)
(*           interval exists) and its handlers can be called               *)
(*   insights  the characters of state.insights (the field insights of     *)
(*           state itself tells that the text is not blank)                *)
(*   pending the calls of fetchContentFromUrl and of generateInsights that  *)
(*           App awaits                                                    *)
(*   io      the last call of one of the functions checked on their own    *)
(*           (its name, its inputs and what it returned or threw)          *)
(***************************************************************************)
EXTENDS Integers, Sequences, FiniteSets, TLC

VARIABLES svc, synth, promise, state, nextId, stopped, mounted, insights,
          pending, io

vars == <<svc, synth, promise, state, nextId, stopped, mounted, insights,
          pending, io>>

\* ------------------------------------------------------------- bounds ----
\* speakText calls (utterance objects created) in one run
MaxUtterances == 2
\* utterance events queued by the platform and not yet dispatched
MaxEvents == 1
\* utterances in the platform queue
MaxQueue == 2

\* characters of an insight text
MaxTextLen == 2
\* calls of one collaborator that App awaits at the same time
MaxPending == 1
\* voices in the list getVoices() returns
MaxVoices == 3

Utterances == 1..MaxUtterances
\* currentUtterance = null
NoUtterance == 0

\* what window.speechSynthesis.cancel() signals to a removed utterance:
\* an error event (interrupted/canceled), an end event, or nothing
CancelSignals == {"error", "end", "none"}

\* ---------------------------------------------- window.speechSynthesis ----
Event(u, type) == [u |-> u, type |-> type]

\* speechSynthesis.cancel(): empties the queue, speaking ceases at once, the
\* paused flag is left alone; every removed utterance is signalled with k
cancel(s, k) ==
  LET evs == IF k = "none" THEN << >>
             ELSE [i \in 1..Len(s.queue) |-> Event(s.queue[i], k)]
  IN [s EXCEPT !.queue = << >>, !.speaking = FALSE, !.events = @ \o evs]

\* speechSynthesis.speak(utterance): appends to the platform queue
speak(s, u) == [s EXCEPT !.queue = Append(@, u)]

\* a platform watched for the calls it receives: s with an empty list calls
Watched(s) == [f \in DOMAIN s \cup {"calls"} |-> IF f = "calls" THEN << >> ELSE s[f]]

\* the platform s after receiving call: a watched platform lists it
received(s, call) ==
  IF "calls" \in DOMAIN s THEN [s EXCEPT !.calls = Append(@, call)] ELSE s

\* speechSynthesis.pause(): the pause event goes to the utterance being spoken
pause(s) ==
  received([s EXCEPT !.paused = TRUE,
                     !.events = IF s.speaking /\ ~s.paused
                                THEN Append(@, Event(Head(s.queue), "pause")) ELSE @],
           "pause")

\* speechSynthesis.resume()
resume(s) ==
  received([s EXCEPT !.paused = FALSE,
                     !.events = IF s.speaking /\ s.paused
                                THEN Append(@, Event(Head(s.queue), "resume")) ELSE @],
           "resume")

\* --------------------------------------------------------- promises ----
\* resolve()/reject() of a promise executor: only a pending promise settles
resolve(p, u) == IF p[u] = "pending" THEN [p EXCEPT ![u] = "resolved"] ELSE p

reject(p, u) == IF p[u] = "pending" THEN [p EXCEPT ![u] = "rejected"] ELSE p

\* ------------------------------------------------ speechService.ts ----
\* currentUtterance = null; isPaused = false; isCurrentlySpeaking = false
Cleared == [currentUtterance |-> NoUtterance, isPaused |-> FALSE,
            isCurrentlySpeaking |-> FALSE]

\* the service and the platform it drives, as one value the functions map
World == [svc |-> svc, synth |-> synth, promise |-> promise]

\* stopSpeaking that forgets to reset the paused flag
stopSpeaking_keepsPaused(w, k) ==
  IF w.synth.supported
  THEN [w EXCEPT !.synth = cancel(@, k), !.svc.currentUtterance = NoUtterance,
                 !.svc.isCurrentlySpeaking = FALSE]
  ELSE w

stopSpeaking(w, k) ==
  IF w.synth.supported
  THEN [w EXCEPT !.synth = cancel(@, k), !.svc = Cleared]
  ELSE w

\* the closure startSpeaking of the speakText call that created utterance u;
\* throws: speechSynthesis.speak raises
startSpeaking(w, u, throws) ==
  IF ~throws
  THEN [w EXCEPT !.svc.isCurrentlySpeaking = TRUE, !.svc.isPaused = FALSE,
                 !.synth = speak(@, u)]
  ELSE [w EXCEPT !.svc = Cleared, !.promise = reject(@, u)]

\* speakText that installs its utterance before it tests for support
speakText_installsFirst(w, u, k, throws) ==
  LET w1 == stopSpeaking(w, k)
      w2 == [w1 EXCEPT !.svc.currentUtterance = u, !.promise[u] = "pending"]
  IN IF ~w.synth.supported
     THEN [w2 EXCEPT !.promise[u] = "rejected"]
     ELSE IF ~w2.synth.voices
          THEN [w2 EXCEPT !.synth.onvoiceschanged = u]
          ELSE startSpeaking(w2, u, throws)

\* speakText(text), creating utterance object u
speakText(w, u, k, throws) ==
  IF ~w.synth.supported
  THEN [w EXCEPT !.promise[u] = "rejected"]
  ELSE LET w1 == stopSpeaking(w, k)
           w2 == [w1 EXCEPT !.svc.currentUtterance = u, !.promise[u] = "pending"]
       IN IF ~w2.synth.voices
          THEN [w2 EXCEPT !.synth.onvoiceschanged = u]
          ELSE startSpeaking(w2, u, throws)

onstart(w, u) ==
  [w EXCEPT !.svc.isCurrentlySpeaking = TRUE, !.svc.isPaused = FALSE]

\* onpause that treats the pause as the end of the utterance
onpause_resolves(w, u) ==
  [w EXCEPT !.svc.isPaused = TRUE, !.promise = resolve(@, u)]

onpause(w, u) == [w EXCEPT !.svc.isPaused = TRUE]

onresume(w, u) == [w EXCEPT !.svc.isPaused = FALSE]

\* onend that resolves without clearing the bookkeeping
onend_keepsState(w, u) == [w EXCEPT !.promise = resolve(@, u)]

onend(w, u) == [w EXCEPT !.svc = Cleared, !.promise = resolve(@, u)]

onerror(w, u) == [w EXCEPT !.svc = Cleared, !.promise = reject(@, u)]

\* pauseSpeaking without the currentUtterance test
pauseSpeaking_noUtteranceTest(w, throws) ==
  IF w.synth.supported /\ w.svc.isCurrentlySpeaking /\ ~w.svc.isPaused
  THEN IF throws THEN w
       ELSE [w EXCEPT !.synth = pause(@), !.svc.isPaused = TRUE]
  ELSE w

\* pauseSpeaking without the isPaused test
pauseSpeaking_noPausedTest(w, throws) ==
  IF w.synth.supported /\ w.svc.currentUtterance # NoUtterance
     /\ w.svc.isCurrentlySpeaking
  THEN IF throws THEN w
       ELSE [w EXCEPT !.synth = pause(@), !.svc.isPaused = TRUE]
  ELSE w

\* throws: speechSynthesis.pause raises
pauseSpeaking(w, throws) ==
  IF w.synth.supported /\ w.svc.currentUtterance # NoUtterance
     /\ w.svc.isCurrentlySpeaking /\ ~w.svc.isPaused
  THEN IF throws THEN w
       ELSE [w EXCEPT !.synth = pause(@), !.svc.isPaused = TRUE]
  ELSE w

\* resumeSpeaking without the currentUtterance test
resumeSpeaking_noUtteranceTest(w, throws) ==
  IF w.synth.supported /\ w.svc.isPaused
  THEN IF throws THEN w
       ELSE [w EXCEPT !.synth = resume(@), !.svc.isPaused = FALSE]
  ELSE w

\* throws: speechSynthesis.resume raises
resumeSpeaking(w, throws) ==
  IF w.synth.supported /\ w.svc.currentUtterance # NoUtterance /\ w.svc.isPaused
  THEN IF throws THEN w
       ELSE [w EXCEPT !.synth = resume(@), !.svc.isPaused = FALSE]
  ELSE w

\* isSpeaking without its test of the paused flag
isSpeaking_ignoresPaused(w) ==
  w.synth.supported /\ w.synth.speaking /\ w.svc.isCurrentlySpeaking

isSpeaking(w) ==
  w.synth.supported /\ w.synth.speaking /\ w.svc.isCurrentlySpeaking
  /\ ~w.svc.isPaused

isSpeechPaused(w) ==
  w.synth.supported /\ w.svc.currentUtterance # NoUtterance /\ w.svc.isPaused

\* ------------------------------------------------ cleanTextForSpeech ----
\* A text is a sequence of characters (one-character strings; "backtick" and
\* "bullet" stand for the backtick and for the bullet mark of the first list
\* rule).

\* \s
Space == {" ", "\n"}
\* \d
Digits == {"0", "1", "2", "3", "4", "5", "6", "7", "8", "9"}
\* the most '#' characters one match of #{1,6} takes
MaxHeaderMarks == 6

Min(a, b) == IF a < b THEN a ELSE b

\* the first index from i on whose character is not in S (Len(t) + 1 if none)
RECURSIVE skip(_, _, _)
skip(t, S, i) == IF i <= Len(t) /\ t[i] \in S THEN skip(t, S, i + 1) ELSE i

\* d occurs in t at index i
At(t, d, i) == i + Len(d) - 1 <= Len(t) /\ SubSeq(t, i, i + Len(d) - 1) = d

\* where the lazy (.*?)d ends up: the first index from i on where d occurs
\* with no line break before it; 0 if there is none
RECURSIVE closeOnLine(_, _, _)
closeOnLine(t, d, i) ==
  IF i > Len(t) THEN 0
  ELSE IF At(t, d, i) THEN i
  ELSE IF t[i] = "\n" THEN 0
  ELSE closeOnLine(t, d, i + 1)

\* [\s\S]*?d: the first index from i on where d occurs; 0 if there is none
RECURSIVE closeAnywhere(_, _, _)
closeAnywhere(t, d, i) ==
  IF i > Len(t) THEN 0
  ELSE IF At(t, d, i) THEN i
  ELSE closeAnywhere(t, d, i + 1)

\* .replace(/#{1,6}\s*/g, '') from index i on
RECURSIVE removeHeaders(_, _)
removeHeaders(t, i) ==
  IF i > Len(t) THEN << >>
  ELSE IF t[i] = "#"
       THEN removeHeaders(t, skip(t, Space, Min(skip(t, {"#"}, i), i + MaxHeaderMarks)))
       ELSE <<t[i]>> \o removeHeaders(t, i + 1)

\* .replace(/d(.*?)d/g, '$1') from index i on, for the delimiter d
RECURSIVE unwrap(_, _, _)
unwrap(t, d, i) ==
  IF i > Len(t) THEN << >>
  ELSE LET j == IF At(t, d, i) THEN closeOnLine(t, d, i + Len(d)) ELSE 0
       IN IF j # 0
          THEN SubSeq(t, i + Len(d), j - 1) \o unwrap(t, d, j + Len(d))
          ELSE <<t[i]>> \o unwrap(t, d, i + 1)

Fence == <<"backtick", "backtick", "backtick">>

\* the code-block rule: three backticks, [\s\S]*?, three backticks are
\* replaced by '', from index i on
RECURSIVE removeCodeBlocks(_, _)
removeCodeBlocks(t, i) ==
  IF i > Len(t) THEN << >>
  ELSE LET j == IF At(t, Fence, i) THEN closeAnywhere(t, Fence, i + Len(Fence)) ELSE 0
       IN IF j # 0
          THEN removeCodeBlocks(t, j + Len(Fence))
          ELSE <<t[i]>> \o removeCodeBlocks(t, i + 1)

\* .replace(/\[([^\]]+)\]\([^)]+\)/g, '$1') from index i on
RECURSIVE linksToText(_, _)
linksToText(t, i) ==
  IF i > Len(t) THEN << >>
  ELSE LET j == IF t[i] = "[" THEN skip(t, {t[n] : n \in 1..Len(t)} \ {"]"}, i + 1) ELSE 0
           k == IF j > i + 1 /\ At(t, <<"]", "(">>, j)
                THEN skip(t, {t[n] : n \in 1..Len(t)} \ {")"}, j + 2) ELSE 0
       IN IF k > j + 2 /\ k <= Len(t)
          THEN SubSeq(t, i + 1, j - 1) \o linksToText(t, k + 1)
          ELSE <<t[i]>> \o linksToText(t, i + 1)

\* the special-character rule: '#', '*', backtick and '_' are removed
removeMarks(t) == SelectSeq(t, LAMBDA c : c \notin {"#", "*", "backtick", "_"})

\* ^ under the m flag: the start of the text or the index after a line break
LineStart(t, i) == i = 1 \/ t[i - 1] = "\n"

Point == <<"P", "o", "i", "n", "t", ":", " ">>

\* .replace(/^[\s]*b[\s]*/gm, 'Point: ') from index i on, for the list mark b
RECURSIVE listMarks(_, _, _)
listMarks(t, b, i) ==
  IF i > Len(t) THEN << >>
  ELSE LET s == skip(t, Space, i)
       IN IF LineStart(t, i) /\ At(t, b, s)
          THEN Point \o listMarks(t, b, skip(t, Space, s + Len(b)))
          ELSE <<t[i]>> \o listMarks(t, b, i + 1)

\* .replace(/^[\s]*\d+\.[\s]*/gm, match => 'Number ' + digits + '. ') from i on
RECURSIVE listNumbers(_, _)
listNumbers(t, i) ==
  IF i > Len(t) THEN << >>
  ELSE LET s == skip(t, Space, i)
           d == skip(t, Digits, s)
       IN IF LineStart(t, i) /\ d > s /\ At(t, <<".">>, d)
          THEN <<"N", "u", "m", "b", "e", "r", " ">> \o SubSeq(t, s, d - 1) \o <<".", " ">>
                 \o listNumbers(t, skip(t, Space, d + 1))
          ELSE <<t[i]>> \o listNumbers(t, i + 1)

\* the last line break of t at an index in lo..hi; 0 if there is none
RECURSIVE lastBreak(_, _, _)
lastBreak(t, lo, hi) ==
  IF hi < lo THEN 0
  ELSE IF t[hi] = "\n" THEN hi
  ELSE lastBreak(t, lo, hi - 1)

RECURSIVE paragraphBreaks_asCommas(_, _)
\* the paragraph rule putting a comma where it puts a period
paragraphBreaks_asCommas(t, i) ==
  IF i > Len(t) THEN << >>
  ELSE LET j == IF t[i] = "\n" THEN lastBreak(t, i + 1, skip(t, Space, i + 1) - 1) ELSE 0
       IN IF j # 0
          THEN <<",", " ">> \o paragraphBreaks_asCommas(t, j + 1)
          ELSE <<t[i]>> \o paragraphBreaks_asCommas(t, i + 1)

\* .replace(/\n\s*\n/g, '. ') from index i on
RECURSIVE paragraphBreaks(_, _)
paragraphBreaks(t, i) ==
  IF i > Len(t) THEN << >>
  ELSE LET j == IF t[i] = "\n" THEN lastBreak(t, i + 1, skip(t, Space, i + 1) - 1) ELSE 0
       IN IF j # 0
          THEN <<".", " ">> \o paragraphBreaks(t, j + 1)
          ELSE <<t[i]>> \o paragraphBreaks(t, i + 1)

\* .replace(/\n/g, ', ') from index i on
RECURSIVE lineBreaks(_, _)
lineBreaks(t, i) ==
  IF i > Len(t) THEN << >>
  ELSE (IF t[i] = "\n" THEN <<",", " ">> ELSE <<t[i]>>) \o lineBreaks(t, i + 1)

\* .replace(/\s+/g, ' ') from index i on
RECURSIVE collapseSpace(_, _)
collapseSpace(t, i) ==
  IF i > Len(t) THEN << >>
  ELSE IF t[i] \in Space
       THEN <<" ">> \o collapseSpace(t, skip(t, Space, i))
       ELSE <<t[i]>> \o collapseSpace(t, i + 1)

\* String.prototype.trim
trim(t) ==
  LET first == skip(t, Space, 1)
      last == CHOOSE n \in 0..Len(t) :
                /\ n = 0 \/ t[n] \notin Space
                /\ \A m \in (n + 1)..Len(t) : t[m] \in Space
  IN SubSeq(t, first, last)

cleanTextForSpeech(text) ==
  LET headers == removeHeaders(text, 1)
      bold == unwrap(headers, <<"*", "*">>, 1)
      italic == unwrap(bold, <<"*">>, 1)
      code == unwrap(italic, <<"backtick">>, 1)
      blocks == removeCodeBlocks(code, 1)
      links == linksToText(blocks, 1)
      marks == removeMarks(links)
      bullets == listMarks(marks, <<"bullet">>, 1)
      dashes == listMarks(bullets, <<"-">>, 1)
      numbers == listNumbers(dashes, 1)
      periods == paragraphBreaks(numbers, 1)
      commas == lineBreaks(periods, 1)
  IN trim(collapseSpace(commas, 1))

\* characters the insight texts of the model are made of
Chars == {"#", " ", "a"}

\* the texts generateInsights can deliver: not empty after trim()
InsightTexts ==
  {t \in UNION {[1..n -> Chars] : n \in 1..MaxTextLen} : trim(t) # << >>}

\* an insight text of plain words
PlainText == <<"a">>

\* ------------------------------------------------------------ App.tsx ----
Idle(st) == ~st.isSpeaking /\ ~st.isPaused

\* a catch block that reports the error and leaves the speech flags
catchReadAloud_keepsSpeaking(st, before, after, u) ==
  IF before[u] # "rejected" /\ after[u] = "rejected"
  THEN [st EXCEPT !.error = "speech"]
  ELSE st

\* the catch block of handleReadAloud, run when the awaited promise of
\* utterance u goes from pending (or not yet created) to rejected
catchReadAloud(st, before, after, u) ==
  IF before[u] # "rejected" /\ after[u] = "rejected"
  THEN [st EXCEPT !.error = "speech", !.isSpeaking = FALSE, !.isPaused = FALSE]
  ELSE st

Install(w) ==
  /\ Len(w.synth.events) <= MaxEvents
  /\ Len(w.synth.queue) <= MaxQueue
  /\ svc' = w.svc
  /\ synth' = w.synth
  /\ promise' = w.promise

Init ==
  /\ svc = Cleared
  /\ synth \in [supported : BOOLEAN, voices : BOOLEAN, onvoiceschanged : {NoUtterance},
                queue : {<< >>}, speaking : {FALSE},
                paused : {FALSE}, events : {<< >>}]
  /\ promise = [u \in Utterances |-> "none"]
  /\ state = [insights |-> FALSE, isSpeaking |-> FALSE, isPaused |-> FALSE,
              error |-> "", isFetching |-> FALSE, isLoading |-> FALSE]
  /\ nextId = 1
  /\ stopped = FALSE
  /\ mounted = TRUE
  /\ insights = << >>
  /\ pending = [fetch |-> 0, analyze |-> 0]
  /\ io = [fn |-> "none"]

\* handleGenerateInsights, success continuation: the insight text arrives
InsightsArrive ==
  /\ ~state.insights
  /\ state' = [state EXCEPT !.insights = TRUE]
  /\ insights' = PlainText
  /\ UNCHANGED <<svc, synth, promise, nextId, stopped, mounted, pending, io>>

clearError ==
  /\ state.error # ""
  /\ state' = [state EXCEPT !.error = ""]
  /\ UNCHANGED <<svc, synth, promise, nextId, stopped, mounted, insights, pending, io>>

\* handleReadAloud with blank insights: early return
HandleReadAloudBlank ==
  /\ ~state.insights
  /\ state' = [state EXCEPT !.error = "no insights"]
  /\ UNCHANGED <<svc, synth, promise, nextId, stopped, mounted, insights, pending, io>>

\* handleReadAloud: setState(speaking), await speakText, catch
HandleReadAloud ==
  /\ state.insights
  /\ nextId <= MaxUtterances
  /\ \E k \in CancelSignals, throws \in BOOLEAN :
       LET u == nextId
           w == speakText(World, u, k, throws)
           st == [state EXCEPT !.isSpeaking = TRUE, !.isPaused = FALSE, !.error = ""]
       IN /\ Install(w)
          /\ state' = catchReadAloud(st, promise, w.promise, u)
  /\ nextId' = nextId + 1
  /\ stopped' = (stopped /\ ~synth.supported)
  /\ UNCHANGED <<mounted, insights, pending, io>>

\* handlePauseSpeech leaving the published state to the pause event
HandlePauseSpeech_waitsForEvent ==
  /\ \E throws \in BOOLEAN : Install(pauseSpeaking(World, throws))
  /\ UNCHANGED <<state, nextId, stopped, mounted, insights, pending, io>>

HandlePauseSpeech ==
  /\ \E throws \in BOOLEAN : Install(pauseSpeaking(World, throws))
  /\ state' = [state EXCEPT !.isPaused = TRUE, !.isSpeaking = FALSE]
  /\ UNCHANGED <<nextId, stopped, mounted, insights, pending, io>>

HandleResumeSpeech ==
  /\ \E throws \in BOOLEAN : Install(resumeSpeaking(World, throws))
  /\ state' = [state EXCEPT !.isPaused = FALSE, !.isSpeaking = TRUE]
  /\ UNCHANGED <<nextId, stopped, mounted, insights, pending, io>>

\* handleStopSpeech without the setState call
HandleStopSpeech_noSetState ==
  /\ \E k \in CancelSignals : Install(stopSpeaking(World, k))
  /\ stopped' = TRUE
  /\ UNCHANGED <<state, nextId, mounted, insights, pending, io>>

HandleStopSpeech ==
  /\ \E k \in CancelSignals : Install(stopSpeaking(World, k))
  /\ state' = [state EXCEPT !.isSpeaking = FALSE, !.isPaused = FALSE]
  /\ stopped' = TRUE
  /\ UNCHANGED <<nextId, mounted, insights, pending, io>>

\* a poll callback with the reset rule alone
pollTick_resetOnly(st, w) ==
  LET speaking == isSpeaking(w)
      paused == isSpeechPaused(w)
  IN IF ~speaking /\ ~paused /\ (st.isSpeaking \/ st.isPaused)
     THEN [st EXCEPT !.isSpeaking = FALSE, !.isPaused = FALSE]
     ELSE st

\* a poll callback that never writes isPaused
pollTick_keepsPaused(st, w) ==
  LET speaking == isSpeaking(w)
      paused == isSpeechPaused(w)
  IN IF st.isSpeaking # speaking \/ st.isPaused # paused
     THEN [st EXCEPT !.isSpeaking = speaking]
     ELSE st

\* a callback that publishes the sampled speaking flag alone
pollTick_speakingOnly(st, w) == [st EXCEPT !.isSpeaking = isSpeaking(w)]

\* the state the setInterval callback leaves, from published state st and
\* the service and platform w it samples
pollTick(st, w) ==
  LET speaking == isSpeaking(w)
      paused == isSpeechPaused(w)
      st1 == IF st.isSpeaking # speaking \/ st.isPaused # paused
             THEN [st EXCEPT !.isSpeaking = speaking, !.isPaused = paused]
             ELSE st
  IN IF ~speaking /\ ~paused /\ (st.isSpeaking \/ st.isPaused)
     THEN [st1 EXCEPT !.isSpeaking = FALSE, !.isPaused = FALSE]
     ELSE st1

\* one run of the setInterval callback
Tick ==
  /\ state' = pollTick(state, World)
  /\ UNCHANGED <<svc, synth, promise, nextId, stopped, mounted, insights, pending, io>>

\* ------------------------------------------------- platform steps ----
\* the utterance at the head of the queue begins to be spoken
EngineStart ==
  /\ synth.queue # << >> /\ ~synth.speaking /\ ~synth.paused
  /\ Len(synth.events) < MaxEvents
  /\ synth' = [synth EXCEPT !.speaking = TRUE,
                            !.events = Append(@, Event(Head(synth.queue), "start"))]
  /\ UNCHANGED <<svc, promise, state, nextId, stopped, mounted, insights, pending, io>>

\* the utterance being spoken finishes
EngineEnd ==
  /\ synth.queue # << >> /\ synth.speaking /\ ~synth.paused
  /\ Len(synth.events) < MaxEvents
  /\ synth' = [synth EXCEPT !.speaking = FALSE, !.queue = Tail(@),
                            !.events = Append(@, Event(Head(synth.queue), "end"))]
  /\ UNCHANGED <<svc, promise, state, nextId, stopped, mounted, insights, pending, io>>

\* synthesis of the utterance at the head of the queue fails
EngineError ==
  /\ synth.queue # << >>
  /\ Len(synth.events) < MaxEvents
  /\ synth' = [synth EXCEPT !.speaking = FALSE, !.queue = Tail(@),
                            !.events = Append(@, Event(Head(synth.queue), "error"))]
  /\ UNCHANGED <<svc, promise, state, nextId, stopped, mounted, insights, pending, io>>

\* the handler the utterance carries for an event type
handle(w, e) ==
  CASE e.type = "start" -> onstart(w, e.u)
    [] e.type = "pause" -> onpause(w, e.u)
    [] e.type = "resume" -> onresume(w, e.u)
    [] e.type = "end" -> onend(w, e.u)
    [] e.type = "error" -> onerror(w, e.u)

\* the platform dispatches the oldest queued utterance event
Deliver ==
  /\ synth.events # << >>
  /\ LET e == Head(synth.events)
         w == handle([World EXCEPT !.synth.events = Tail(@)], e)
     IN /\ Install(w)
        /\ state' = catchReadAloud(state, promise, w.promise, e.u)
  /\ UNCHANGED <<nextId, stopped, mounted, insights, pending, io>>

\* the voice list changes and the platform calls onvoiceschanged
VoicesChanged ==
  /\ synth.supported
  /\ \E throws \in BOOLEAN :
       LET w0 == [World EXCEPT !.synth.voices = TRUE]
           u == synth.onvoiceschanged
           w == IF u = NoUtterance THEN w0 ELSE startSpeaking(w0, u, throws)
       IN /\ Install(w)
          /\ state' = IF u = NoUtterance THEN state
                      ELSE catchReadAloud(state, promise, w.promise, u)
  /\ UNCHANGED <<nextId, stopped, mounted, insights, pending, io>>

Next ==
  \/ InsightsArrive
  \/ clearError
  \/ HandleReadAloudBlank
  \/ HandleReadAloud
  \/ HandlePauseSpeech
  \/ HandleResumeSpeech
  \/ HandleStopSpeech
  \/ Tick
  \/ EngineStart
  \/ EngineEnd
  \/ EngineError
  \/ Deliver
  \/ VoicesChanged

Spec == Init /\ [][Next]_vars

\* --------------------------------------------------------- teardown ----
\* the cleanups of both effects without the stopSpeaking call
Unmount_noStop ==
  /\ mounted
  /\ mounted' = FALSE
  /\ stopped' = TRUE
  /\ UNCHANGED <<svc, synth, promise, state, nextId, insights, pending, io>>

\* the component unmounts: the cleanups of both effects run, clearInterval
\* of the poller and stopSpeaking
Unmount ==
  /\ mounted
  /\ \E k \in CancelSignals : Install(stopSpeaking(World, k))
  /\ mounted' = FALSE
  /\ stopped' = TRUE
  /\ UNCHANGED <<state, nextId, insights, pending, io>>

\* handlers and the poller run while the component is mounted; the platform
\* goes on dispatching events and calling onvoiceschanged after it
NextTeardown ==
  \/ mounted /\ InsightsArrive
  \/ mounted /\ clearError
  \/ mounted /\ HandleReadAloudBlank
  \/ mounted /\ HandleReadAloud
  \/ mounted /\ HandlePauseSpeech
  \/ mounted /\ HandleResumeSpeech
  \/ mounted /\ HandleStopSpeech
  \/ mounted /\ Tick
  \/ EngineStart
  \/ EngineEnd
  \/ EngineError
  \/ Deliver
  \/ VoicesChanged
  \/ Unmount

SpecTeardown == Init /\ [][NextTeardown]_vars

\* ------------------------------------ speechSynthesis.cancel() throwing ----
\* stopSpeaking has no try block: an exception of cancel() leaves it before
\* it clears its variables and reaches its caller.

\* a catch block of handleStopSpeech that reports the error only
HandleStopSpeechThrows_errorOnly ==
  /\ synth.supported
  /\ state' = [state EXCEPT !.error = "stop"]
  /\ UNCHANGED <<svc, synth, promise, nextId, stopped, mounted, insights, pending, io>>

\* handleStopSpeech when stopSpeaking throws: its catch block runs
HandleStopSpeechThrows ==
  /\ synth.supported
  /\ state' = [state EXCEPT !.error = "stop", !.isSpeaking = FALSE, !.isPaused = FALSE]
  /\ UNCHANGED <<svc, synth, promise, nextId, stopped, mounted, insights, pending, io>>

\* handleReadAloud when the stopSpeaking call of speakText throws: the
\* promise executor throws, the promise is rejected and the catch block runs
HandleReadAloudStopThrows ==
  /\ state.insights
  /\ nextId <= MaxUtterances
  /\ synth.supported
  /\ LET u == nextId
         st == [state EXCEPT !.isSpeaking = TRUE, !.isPaused = FALSE, !.error = ""]
     IN /\ promise' = reject([promise EXCEPT ![u] = "pending"], u)
        /\ state' = catchReadAloud(st, promise, promise', u)
  /\ nextId' = nextId + 1
  /\ UNCHANGED <<svc, synth, stopped, mounted, insights, pending, io>>

\* the state the setInterval callback leaves when isSpeaking() throws: the
\* callback has no try block, the exception leaves it before any setState
pollTickThrows(st, w) == st

\* one run of the setInterval callback in which the status query throws
\* (reading window.speechSynthesis.speaking)
TickQueryThrows ==
  /\ synth.supported
  /\ state' = pollTickThrows(state, World)
  /\ UNCHANGED <<svc, synth, promise, nextId, stopped, mounted, insights, pending, io>>

NextFaulty ==
  \/ Next
  \/ HandleStopSpeechThrows
  \/ HandleReadAloudStopThrows
  \/ TickQueryThrows

SpecFaulty == Init /\ [][NextFaulty]_vars


\* ------------------------------------------------ speech controls ----
\* renderSpeechControls that does not test for an insight text
renderSpeechControls_noInsightsTest(st, text) ==
  IF st.isSpeaking /\ ~st.isPaused THEN {"Pause", "Stop"}
  ELSE IF st.isPaused THEN {"Resume", "Stop"}
  ELSE {"Read Aloud"}

\* renderSpeechControls(): the buttons rendered for the published state st
\* and the characters text of state.insights
renderSpeechControls(st, text) ==
  IF text = << >> THEN {}
  ELSE IF st.isSpeaking /\ ~st.isPaused THEN {"Pause", "Stop"}
  ELSE IF st.isPaused THEN {"Resume", "Stop"}
  ELSE {"Read Aloud"}

\* ---------------------------------------------------- collaborators ----
\* state.url and state.content are whatever the user typed last (onChange):
\* a handler can find its field blank or not blank at any time.

\* handleFetchContent finding state.url blank: early return
HandleFetchContentBlank ==
  /\ state' = [state EXCEPT !.error = "Please enter a valid URL"]
  /\ UNCHANGED <<svc, synth, promise, nextId, stopped, mounted, insights, pending, io>>

\* handleFetchContent finding state.url not blank, up to its await
HandleFetchContent ==
  /\ pending.fetch < MaxPending
  /\ state' = [state EXCEPT !.isFetching = TRUE, !.error = ""]
  /\ pending' = [pending EXCEPT !.fetch = @ + 1]
  /\ UNCHANGED <<svc, synth, promise, nextId, stopped, mounted, insights, io>>

\* fetchContentFromUrl resolves: the continuation of handleFetchContent
FetchContentResolves ==
  /\ pending.fetch > 0
  /\ state' = [state EXCEPT !.isFetching = FALSE]
  /\ pending' = [pending EXCEPT !.fetch = @ - 1]
  /\ UNCHANGED <<svc, synth, promise, nextId, stopped, mounted, insights, io>>

\* a catch block of handleFetchContent that also resets the speech flags
FetchContentRejects_resetsSpeech ==
  /\ pending.fetch > 0
  /\ state' = [state EXCEPT !.error = "fetch failed", !.isFetching = FALSE,
                            !.isSpeaking = FALSE, !.isPaused = FALSE]
  /\ pending' = [pending EXCEPT !.fetch = @ - 1]
  /\ UNCHANGED <<svc, synth, promise, nextId, stopped, mounted, insights, io>>

\* fetchContentFromUrl rejects: the catch block of handleFetchContent
FetchContentRejects ==
  /\ pending.fetch > 0
  /\ state' = [state EXCEPT !.error = "fetch failed", !.isFetching = FALSE]
  /\ pending' = [pending EXCEPT !.fetch = @ - 1]
  /\ UNCHANGED <<svc, synth, promise, nextId, stopped, mounted, insights, io>>

\* handleGenerateInsights finding state.content blank: early return
HandleGenerateInsightsBlank ==
  /\ state' = [state EXCEPT !.error = "Please provide content to analyze"]
  /\ UNCHANGED <<svc, synth, promise, nextId, stopped, mounted, insights, pending, io>>

\* handleGenerateInsights finding state.content not blank, up to its await
HandleGenerateInsights ==
  /\ pending.analyze < MaxPending
  /\ state' = [state EXCEPT !.isLoading = TRUE, !.error = ""]
  /\ pending' = [pending EXCEPT !.analyze = @ + 1]
  /\ UNCHANGED <<svc, synth, promise, nextId, stopped, mounted, insights, io>>

\* generateInsights resolves: the continuation of handleGenerateInsights
GenerateInsightsResolves ==
  /\ pending.analyze > 0
  /\ state' = [state EXCEPT !.insights = TRUE, !.isLoading = FALSE]
  /\ insights' = PlainText
  /\ pending' = [pending EXCEPT !.analyze = @ - 1]
  /\ UNCHANGED <<svc, synth, promise, nextId, stopped, mounted, io>>

\* a catch block of handleGenerateInsights that leaves the loading flag set
GenerateInsightsRejects_keepsLoading ==
  /\ pending.analyze > 0
  /\ state' = [state EXCEPT !.error = "insights failed"]
  /\ pending' = [pending EXCEPT !.analyze = @ - 1]
  /\ UNCHANGED <<svc, synth, promise, nextId, stopped, mounted, insights, io>>

\* generateInsights rejects: the catch block of handleGenerateInsights
GenerateInsightsRejects ==
  /\ pending.analyze > 0
  /\ state' = [state EXCEPT !.error = "insights failed", !.isLoading = FALSE]
  /\ pending' = [pending EXCEPT !.analyze = @ - 1]
  /\ UNCHANGED <<svc, synth, promise, nextId, stopped, mounted, insights, io>>

Collaborate ==
  \/ HandleFetchContentBlank
  \/ HandleFetchContent
  \/ FetchContentResolves
  \/ FetchContentRejects
  \/ HandleGenerateInsightsBlank
  \/ HandleGenerateInsights
  \/ GenerateInsightsResolves
  \/ GenerateInsightsRejects

\* the collaborator handlers next to the handlers of playback, the poller and
\* the platform steps that start and end an utterance
NextCollab ==
  \/ Collaborate
  \/ clearError
  \/ HandleReadAloudBlank
  \/ HandleReadAloud
  \/ HandlePauseSpeech
  \/ HandleResumeSpeech
  \/ HandleStopSpeech
  \/ Tick
  \/ EngineStart
  \/ EngineEnd
  \/ Deliver

SpecCollab == Init /\ [][NextCollab]_vars

\* ------------------------------------------------- insight texts ----
\* handleGenerateInsights, success continuation, with any insight text
InsightsArriveText ==
  /\ ~state.insights
  /\ state' = [state EXCEPT !.insights = TRUE]
  /\ insights' \in InsightTexts
  /\ UNCHANGED <<svc, synth, promise, nextId, stopped, mounted, pending, io>>

NextText ==
  \/ Next
  \/ InsightsArriveText

SpecText == Init /\ [][NextText]_vars

\* -------------------------------------------------- voice selection ----
\* A voice has a name (its words) and a language tag (its characters).
Voices ==
  { [name |-> <<"Samantha", "Enhanced">>, lang |-> <<"e", "n", "-", "U", "S">>],
    [name |-> <<"Daniel", "Premium">>, lang |-> <<"e", "n", "-", "G", "B">>],
    [name |-> <<"Alex">>, lang |-> <<"e", "n", "-", "U", "S">>],
    [name |-> <<"Amelie", "Natural">>, lang |-> <<"f", "r", "-", "F", "R">>],
    [name |-> <<"Thomas">>, lang |-> <<"f", "r">>] }

VoiceLists == UNION {[1..n -> Voices] : n \in 0..MaxVoices}

\* undefined: utterance.voice is not set
NoVoice == [name |-> << >>, lang |-> << >>]

\* voice.lang.startsWith('en')
English(v) == Len(v.lang) >= 2 /\ SubSeq(v.lang, 1, 2) = <<"e", "n">>

\* voice.name.includes('Enhanced') || ...('Premium') || ...('Natural')
HighQuality(v) ==
  \E i \in 1..Len(v.name) : v.name[i] \in {"Enhanced", "Premium", "Natural"}

\* the element Array.prototype.find returns for the indices that match
find(vs, matches) ==
  IF matches = {} THEN NoVoice
  ELSE vs[CHOOSE i \in matches : \A j \in matches : i <= j]

\* a selection that takes the first English voice whatever its name
preferredVoice_firstEnglish(vs) ==
  LET english == find(vs, {i \in 1..Len(vs) : English(vs[i])})
  IN IF english # NoVoice THEN english
     ELSE IF Len(vs) > 0 THEN vs[1] ELSE NoVoice

\* preferredVoice of speakText: find(...) || find(...) || voices[0]
preferredVoice(vs) ==
  LET best == find(vs, {i \in 1..Len(vs) : English(vs[i]) /\ HighQuality(vs[i])})
      english == find(vs, {i \in 1..Len(vs) : English(vs[i])})
  IN IF best # NoVoice THEN best
     ELSE IF english # NoVoice THEN english
     ELSE IF Len(vs) > 0 THEN vs[1] ELSE NoVoice

\* voice of the onvoiceschanged closure, from the updated list
deferredVoice(vs) ==
  LET best == find(vs, {i \in 1..Len(vs) : English(vs[i]) /\ HighQuality(vs[i])})
      english == find(vs, {i \in 1..Len(vs) : English(vs[i])})
  IN IF best # NoVoice THEN best
     ELSE IF english # NoVoice THEN english
     ELSE IF Len(vs) > 0 THEN vs[1] ELSE NoVoice

\* speakText or its onvoiceschanged closure picks the utterance's voice
SelectVoice ==
  /\ \E vs \in VoiceLists :
       io' = [fn |-> "selectVoice", voices |-> vs, voice |-> preferredVoice(vs),
              deferred |-> deferredVoice(vs)]
  /\ UNCHANGED <<svc, synth, promise, state, nextId, stopped, mounted, insights, pending>>

SpecVoice == Init /\ [][SelectVoice]_vars

\* -------------------------------------------------- generateInsights ----
\* content.trim().length the function asks for
MinContentLength == 50

\* a content of lead blanks, n letters and trail blanks
Content(lead, n, trail) ==
  [i \in 1..(lead + n + trail) |-> IF i <= lead \/ i > lead + n THEN " " ELSE "a"]

Contents ==
  {Content(lead, n, trail) :
     lead \in 0..1, n \in {0, 10, MinContentLength - 1, MinContentLength}, trail \in 0..1}

\* the two services: the Gemini one (the one App imports) and the OpenAI one
Providers == {"Gemini", "OpenAI"}

Placeholder(provider) ==
  IF provider = "Gemini" THEN "your_gemini_api_key_here" ELSE "your_openai_api_key_here"

\* import.meta.env.VITE_..._API_KEY; "" stands for undefined
ApiKeys == {"", "your_gemini_api_key_here", "your_openai_api_key_here", "a key"}

Statuses == {200, 201, 400, 401, 403, 404, 429, 500}

\* response.ok
Ok(status) == status \in 200..299

ResponseTexts == {<< >>, <<" ">>, <<"a">>, <<" ", "a", " ">>}

\* what response.json() gives: a rejection, an object with an error field
\* (with or without a message), or an object whose candidates/choices are
\* missing, empty, without parts/message, or hold a text
Bodies ==
  {[shape |-> sh, text |-> << >>] :
     sh \in {"unparsable", "error", "error without message", "no candidates",
             "empty candidates", "candidate without parts"}}
  \cup {[shape |-> "text", text |-> t] : t \in ResponseTexts}

\* what fetch() gives: a rejection or a response
Responses ==
  {[kind |-> "rejected", status |-> 0, body |-> [shape |-> "unparsable", text |-> << >>]]}
  \cup [kind : {"response"}, status : Statuses, body : Bodies]

Threw(requests, message) ==
  [requests |-> requests, outcome |-> "threw", message |-> message, text |-> << >>]

Returned(text) ==
  [requests |-> 1, outcome |-> "returned", message |-> "", text |-> text]

\* the tests before the request, measuring the content without trim()
inputError_noTrim(provider, apiKey, content) ==
  IF apiKey = "" \/ apiKey = Placeholder(provider)
  THEN "API key is not configured"
  ELSE IF Len(content) < MinContentLength
  THEN "Content is too short to analyze"
  ELSE ""

\* the tests before the request: the message thrown, "" when they pass
inputError(provider, apiKey, content) ==
  IF apiKey = "" \/ apiKey = Placeholder(provider)
  THEN "API key is not configured"
  ELSE IF Len(content) = 0 \/ Len(trim(content)) < MinContentLength
  THEN "Content is too short to analyze"
  ELSE ""

\* the status branch without the test for 429
statusError_no429(status, body) ==
  IF status = 401 THEN "Invalid API key"
  ELSE IF status = 400 THEN "Invalid request"
  ELSE IF status = 403 THEN "Access denied"
  ELSE IF body.shape = "error" THEN "error.message"
  ELSE "API error: status"

\* the message thrown for a response that is not ok
statusError(status, body) ==
  IF status = 401 THEN "Invalid API key"
  ELSE IF status = 429 THEN "Rate limit exceeded"
  ELSE IF status = 400 THEN "Invalid request"
  ELSE IF status = 403 THEN "Access denied"
  ELSE IF body.shape = "error" THEN "error.message"
  ELSE "API error: status"

\* reading an ok response without the test for an empty text
readData_noEmptyTest(provider, body) ==
  IF body.shape = "unparsable" THEN Threw(1, "json rejected")
  ELSE IF body.shape \in {"error", "error without message"}
  THEN Threw(1, "API error: error.message")
  ELSE IF body.shape \in {"no candidates", "empty candidates"}
  THEN Threw(1, "No insights generated")
  ELSE IF body.shape = "candidate without parts"
  THEN IF provider = "Gemini" THEN Threw(1, "Invalid response structure")
       ELSE Threw(1, "TypeError")
  ELSE Returned(body.text)

\* reading an ok response: what is returned or thrown
readData(provider, body) ==
  IF body.shape = "unparsable" THEN Threw(1, "json rejected")
  ELSE IF body.shape \in {"error", "error without message"}
  THEN Threw(1, "API error: error.message")
  ELSE IF body.shape \in {"no candidates", "empty candidates"}
  THEN Threw(1, "No insights generated")
  ELSE IF body.shape = "candidate without parts"
  THEN IF provider = "Gemini" THEN Threw(1, "Invalid response structure")
       ELSE Threw(1, "TypeError")
  ELSE IF Len(body.text) = 0 \/ Len(trim(body.text)) = 0
  THEN Threw(1, "Empty response")
  ELSE Returned(body.text)

\* generateInsights(content) of provider with the key apiKey, when fetch
\* answers with response: the requests sent and what is returned or thrown
generateInsights(provider, apiKey, content, response) ==
  IF inputError(provider, apiKey, content) # ""
  THEN Threw(0, inputError(provider, apiKey, content))
  ELSE IF response.kind = "rejected" THEN Threw(1, "fetch rejected")
  ELSE IF ~Ok(response.status)
  THEN Threw(1, statusError(response.status, response.body))
  ELSE readData(provider, response.body)

\* the call of generateInsights of a run
CallGenerateInsights ==
  /\ io.fn = "none"
  /\ \E provider \in Providers, apiKey \in ApiKeys, content \in Contents,
        response \in Responses :
       io' = [fn |-> "generateInsights", provider |-> provider, apiKey |-> apiKey,
              content |-> content, response |-> response,
              out |-> generateInsights(provider, apiKey, content, response)]
  /\ UNCHANGED <<svc, synth, promise, state, nextId, stopped, mounted, insights, pending>>

SpecInsights == Init /\ [][CallGenerateInsights]_vars

\* -------------------------------------------------- contentService.ts ----
\* A text is modelled by its sentences, the pieces between runs of . ! ? of
\* the text after the clean-up replacements: lead is the blanks before the
\* piece, length and words measure the piece trimmed, noise tells that it
\* starts with one of the words the filter rejects (Copyright, Home, ...).
MinContainerText == 200
MinSentenceLength == 15
MinSentenceWords == 3
MaxSentenceLength == 500
MaxSentences == 50
MinCleanedLength == 100
MaxCleanedLength == 4000
MinExtractedLength == 50

Sentence(length, words, noise) ==
  [lead |-> 1, length |-> length, words |-> words, noise |-> noise]

Sentences ==
  { Sentence(10, 2, FALSE), Sentence(MinSentenceLength + 1, MinSentenceWords, FALSE),
    Sentence(MinSentenceLength, MinSentenceWords + 1, FALSE),
    Sentence(MinSentenceLength + 1, MinSentenceWords + 1, FALSE),
    Sentence(MinSentenceLength + 1, MinSentenceWords + 1, TRUE),
    Sentence(MinCleanedLength - 1, 20, FALSE), Sentence(MinCleanedLength, 20, FALSE),
    Sentence(MaxSentenceLength - 1, 80, FALSE), Sentence(MaxSentenceLength, 80, FALSE) }

\* a trimmed text: first, then n times rest
Text(first, rest, n) ==
  [i \in 1..(n + 1) |-> IF i = 1 THEN [first EXCEPT !.lead = 0] ELSE rest]

Texts ==
  {<< >>} \cup { Text(first, rest, n) : first \in Sentences, rest \in Sentences,
                                       n \in {0, 1, 8, MaxSentences} }

RECURSIVE textLength(_)
\* the characters of a text: each sentence with its blanks and its period
textLength(t) ==
  IF t = << >> THEN 0
  ELSE Head(t).lead + Head(t).length + 1 + textLength(Tail(t))

\* an element of the page: the text in it after the clean-up and the
\* characters the clean-up takes away (blanks, addresses, menu words)
Container(t, removed) == [sentences |-> t, removed |-> removed]

Containers ==
  { Container(<< >>, 0),
    Container(Text(Sentence(MinCleanedLength, 20, FALSE), Sentence(10, 2, FALSE), 0), 0),
    Container(Text(Sentence(MinCleanedLength, 20, FALSE), Sentence(10, 2, FALSE), 0),
              MinContainerText - MinCleanedLength),
    Container(Text(Sentence(10, 2, FALSE), Sentence(10, 2, FALSE), 1), MinContainerText),
    Container(Text(Sentence(MinSentenceLength + 1, MinSentenceWords + 1, TRUE),
                   Sentence(MaxSentenceLength - 1, 80, FALSE), 1), 0) }

\* a parsed page, the removed elements taken out: the elements that the
\* selectors match, in the order the selectors are tried, and the text of
\* the body outside them (a text/html document always has a body)
Pages ==
  [containers : {<< >>} \cup { <<c>> : c \in Containers }
                        \cup { <<c, d>> : c \in Containers, d \in Containers },
   outside : Texts]

\* element.textContent.trim().length
textContentLength(c) == c.removed + textLength(c.sentences)

RECURSIVE bodyText(_, _)
\* the sentences of doc.body.textContent
bodyText(containers, outside) ==
  IF containers = << >> THEN outside
  ELSE Head(containers).sentences \o bodyText(Tail(containers), outside)

RECURSIVE mainContent(_, _)
\* the text of the first matching element with more than 200 characters,
\* of the body when there is none
mainContent(containers, page) ==
  IF containers = << >> THEN bodyText(page.containers, page.outside)
  ELSE IF textContentLength(Head(containers)) > MinContainerText
  THEN Head(containers).sentences
  ELSE mainContent(Tail(containers), page)

\* the filter of the sentences
meaningful(sentence) ==
  /\ sentence.length > MinSentenceLength
  /\ sentence.words > MinSentenceWords
  /\ ~sentence.noise
  /\ sentence.length < MaxSentenceLength

RECURSIVE joinedLength(_)
\* the length of sentences.join('. ')
joinedLength(t) ==
  IF t = << >> THEN 0
  ELSE Head(t).lead + Head(t).length
       + (IF Tail(t) = << >> THEN 0 ELSE 2 + joinedLength(Tail(t)))

Failed(message) == [outcome |-> "threw", message |-> message, length |-> 0]
Extracted(length) == [outcome |-> "returned", message |-> "", length |-> length]

\* extractTextFromHtml that returns whatever the sentences give
extractTextFromHtml_noMinimum(page) ==
  LET sentences == SelectSeq(mainContent(page.containers, page), meaningful)
      first == SubSeq(sentences, 1, Min(MaxSentences, Len(sentences)))
      cleanedLength == joinedLength(first) - first[1].lead
  IN  IF Len(sentences) = 0
      THEN Failed("No meaningful sentences could be extracted")
      ELSE IF cleanedLength > MaxCleanedLength
      THEN Extracted(MaxCleanedLength + 3)
      ELSE Extracted(cleanedLength)

\* extractTextFromHtml(html): the length of the text returned, or the error
extractTextFromHtml(page) ==
  LET sentences == SelectSeq(mainContent(page.containers, page), meaningful)
      first == SubSeq(sentences, 1, Min(MaxSentences, Len(sentences)))
      cleanedLength == joinedLength(first) - first[1].lead
  IN  IF Len(sentences) = 0
      THEN Failed("No meaningful sentences could be extracted")
      ELSE IF cleanedLength < MinCleanedLength
      THEN Failed("Extracted content is too short to analyze meaningfully")
      ELSE IF cleanedLength > MaxCleanedLength
      THEN Extracted(MaxCleanedLength + 3)
      ELSE Extracted(cleanedLength)

\* the call of extractTextFromHtml of a run
CallExtractTextFromHtml ==
  /\ io.fn = "none"
  /\ \E page \in Pages :
       io' = [fn |-> "extractTextFromHtml", page |-> page,
              out |-> extractTextFromHtml(page)]
  /\ UNCHANGED <<svc, synth, promise, state, nextId, stopped, mounted, insights, pending>>

\* fetchContentFromUrl
ProxyServices == <<"codetabs", "cors-anywhere", "allorigins">>

\* the url given: whether new URL(url) accepts it and whether the word
\* allorigins occurs in it (and so in every proxy url built from it)
Urls ==
  { [valid |-> FALSE, allorigins |-> FALSE], [valid |-> TRUE, allorigins |-> FALSE],
    [valid |-> TRUE, allorigins |-> TRUE] }

\* the pages the proxies deliver
FetchedPages ==
  { [containers |-> << >>, outside |-> << >>],
    [containers |-> << >>, outside |-> Text(Sentence(MinCleanedLength - 1, 20, FALSE),
                                           Sentence(10, 2, FALSE), 0)],
    [containers |-> << >>, outside |-> Text(Sentence(MinCleanedLength, 20, FALSE),
                                           Sentence(10, 2, FALSE), 0)] }

NoPage == [containers |-> << >>, outside |-> << >>]

\* what a proxy does with the request: fetch rejects (with an Error, with an
\* Error of empty message, with a value that is no Error), or it answers: not
\* ok, ok without contents (allorigins answers in JSON), ok with fewer than
\* 100 characters, ok with a page
Answers ==
  [kind : {"rejected", "rejected without message", "rejected with a value",
           "not ok", "no contents", "minimal"}, page : {NoPage}]
    \cup [kind : {"page"}, page : FetchedPages]

\* one pass of the loop body: the error thrown in it, or the text extracted
attempt(proxy, url, answer) ==
  IF answer.kind = "rejected" THEN Failed("Failed to fetch")
  ELSE IF answer.kind = "rejected without message" THEN Failed("")
  ELSE IF answer.kind = "rejected with a value" THEN Failed("Unknown error occurred")
  ELSE IF answer.kind = "not ok" THEN Failed("HTTP status")
  ELSE IF proxy # "allorigins" /\ url.allorigins THEN Failed("response.json() rejected")
  ELSE IF proxy = "allorigins" /\ answer.kind = "no contents"
  THEN Failed("No content received from proxy service")
  ELSE IF answer.kind \in {"no contents", "minimal"}
  THEN Failed("Received empty or minimal content")
  ELSE IF extractTextFromHtml(answer.page).outcome = "threw"
  THEN extractTextFromHtml(answer.page)
  ELSE IF extractTextFromHtml(answer.page).length < MinExtractedLength
  THEN Failed("Unable to extract meaningful content from the page")
  ELSE extractTextFromHtml(answer.page)

\* the length of "Content fetched from: url" and the two line breaks
PrefixLength == 40

Fetched(tried, length) ==
  [outcome |-> "returned", tried |-> tried, message |-> << >>, length |-> length]
FetchFailed(tried, message) ==
  [outcome |-> "threw", tried |-> tried, message |-> message, length |-> 0]

RECURSIVE proxyLoop_firstError(_, _, _, _)
\* the loop that keeps the first error instead of the last
proxyLoop_firstError(url, answers, i, lastError) ==
  IF i > Len(ProxyServices)
  THEN FetchFailed(ProxyServices,
         <<"Unable to fetch content from the URL", "Last error: ",
           IF lastError = "" THEN "Unknown error" ELSE lastError>>)
  ELSE IF attempt(ProxyServices[i], url, answers[i]).outcome = "returned"
  THEN Fetched(SubSeq(ProxyServices, 1, i),
               PrefixLength + attempt(ProxyServices[i], url, answers[i]).length)
  ELSE proxyLoop_firstError(url, answers, i + 1,
         IF i = 1 THEN attempt(ProxyServices[i], url, answers[i]).message
         ELSE lastError)

RECURSIVE proxyLoop(_, _, _, _)
\* the loop over proxyServices from the i-th on, lastError the message of
\* the last error caught ("" when there is none or it is empty)
proxyLoop(url, answers, i, lastError) ==
  IF i > Len(ProxyServices)
  THEN FetchFailed(ProxyServices,
         <<"Unable to fetch content from the URL", "Last error: ",
           IF lastError = "" THEN "Unknown error" ELSE lastError>>)
  ELSE IF attempt(ProxyServices[i], url, answers[i]).outcome = "returned"
  THEN Fetched(SubSeq(ProxyServices, 1, i),
               PrefixLength + attempt(ProxyServices[i], url, answers[i]).length)
  ELSE proxyLoop(url, answers, i + 1,
                 attempt(ProxyServices[i], url, answers[i]).message)

\* fetchContentFromUrl(url) when the proxies answer with answers: the
\* proxies fetched, and the length of the text returned or the parts of the
\* message thrown
fetchContentFromUrl(url, answers) ==
  IF ~url.valid THEN FetchFailed(<< >>, <<"Please enter a valid URL">>)
  ELSE proxyLoop(url, answers, 1, "")

\* the call of fetchContentFromUrl of a run
CallFetchContentFromUrl ==
  /\ io.fn = "none"
  /\ \E url \in Urls, answers \in [1..Len(ProxyServices) -> Answers] :
       io' = [fn |-> "fetchContentFromUrl", url |-> url, answers |-> answers,
              out |-> fetchContentFromUrl(url, answers)]
  /\ UNCHANGED <<svc, synth, promise, state, nextId, stopped, mounted, insights, pending>>

NextContent == CallExtractTextFromHtml \/ CallFetchContentFromUrl

SpecContent == Init /\ [][NextContent]_vars

\* ------------------------------------------- cleanTextForSpeech calls ----
\* the most pieces of markdown a text given to cleanTextForSpeech is made of
MaxPieces == 2

\* a piece of markdown and the letters of the words a reader sees in it
Piece(markdown, words) == [markdown |-> markdown, words |-> words]

\* a header, bold, italic, a fenced block and a link in three lines
Document ==
  Piece(<<"#", " ", "a", "\n", "*", "*", "b", "*", "*", " ", "*", "c", "*", "\n",
          "backtick", "backtick", "backtick", "d", "backtick", "backtick", "backtick",
          " ", "[", "e", "]", "(", "u", ")", "\n">>,
        <<"a", "b", "c", "d", "e">>)

\* the text of the scenario: ## Title, a blank line, Some **bold** text.
Scenario ==
  Piece(<<"#", "#", " ", "T", "i", "t", "l", "e", "\n", "\n", "S", "o", "m", "e", " ",
          "*", "*", "b", "o", "l", "d", "*", "*", " ", "t", "e", "x", "t", ".">>,
        <<"T", "i", "t", "l", "e", "S", "o", "m", "e", "b", "o", "l", "d",
          "t", "e", "x", "t">>)

Pieces ==
  { Document, Scenario,
    Piece(<<"#", "#", " ", "a", "\n">>, <<"a">>),
    Piece(<<"*", "*", "a", "*", "*">>, <<"a">>),
    Piece(<<"*", "a", "*">>, <<"a">>),
    Piece(<<"backtick", "backtick", "backtick", "\n", "a", "\n",
            "backtick", "backtick", "backtick", "\n">>, <<"a">>),
    Piece(<<"[", "a", "]", "(", "u", ")">>, <<"a">>),
    \* a linked image: [![a](u)](u)
    Piece(<<"[", "!", "[", "a", "]", "(", "u", ")", "]", "(", "u", ")">>, <<"a">>),
    Piece(<<"a", " ">>, <<"a">>),
    Piece(<<"\n">>, << >>) }

RECURSIVE markdown(_)
\* the text made of pieces
markdown(pieces) ==
  IF pieces = << >> THEN << >> ELSE Head(pieces).markdown \o markdown(Tail(pieces))

RECURSIVE words(_)
\* the letters of the words of pieces
words(pieces) ==
  IF pieces = << >> THEN << >> ELSE Head(pieces).words \o words(Tail(pieces))

\* the call of cleanTextForSpeech of a run
CallCleanTextForSpeech ==
  /\ io.fn = "none"
  /\ \E pieces \in UNION {[1..n -> Pieces] : n \in 1..MaxPieces} :
       io' = [fn |-> "cleanTextForSpeech", pieces |-> pieces,
              out |-> cleanTextForSpeech(markdown(pieces))]
  /\ UNCHANGED <<svc, synth, promise, state, nextId, stopped, mounted, insights, pending>>

SpecClean == Init /\ [][CallCleanTextForSpeech]_vars

\* ------------------------------------------------------------ claims ----
\* an utterance event is dispatched in this step
Delivered(e) ==
  /\ synth.events # << >>
  /\ Head(synth.events) = e
  /\ Deliver

TerminalTypes == {"end", "error"}

\* C1: at most one utterance is active at any time: after any sequence of
\* play/pause/resume/stop commands and platform events the platform queue
\* never holds two utterances (speaking or queued) together.
C1_AtMostOneUtterance ==
  Cardinality({synth.queue[i] : i \in 1..Len(synth.queue)}) <= 1

\* C2: a completion or error callback of a cancelled utterance that fires
\* while the adapter tracks another utterance as current is a no-op: the
\* current utterance and the speaking/paused flags are unchanged.
C2_StaleTerminalIsNoOp ==
  [][\A u \in Utterances, t \in TerminalTypes :
       (Delivered(Event(u, t)) /\ svc.currentUtterance # NoUtterance
        /\ svc.currentUtterance # u) => svc' = svc]_vars

\* C3: after stopSpeaking with no later speakText no utterance callback
\* resurrects state: the bookkeeping stays cleared and isSpeaking() and
\* isSpeechPaused() stay false whatever utterance event is dispatched.
C3_NoResurrection ==
  [][(stopped /\ svc = Cleared /\ Deliver)
       => (svc' = Cleared /\ ~isSpeaking([World EXCEPT !.svc = svc', !.synth = synth'])
           /\ ~isSpeechPaused([World EXCEPT !.svc = svc', !.synth = synth']))]_vars

\* the utterance has been handed to the platform or waits for the voice list
Started(s, u) ==
  \/ \E i \in 1..Len(s.queue) : s.queue[i] = u
  \/ s.onvoiceschanged = u

\* C4: a stop command publishes idle at once, whatever the state before, and
\* the raw state a poll tick samples right after it (isSpeaking(),
\* isSpeechPaused()) is idle as well.
C4_StopPublishesIdle ==
  [][HandleStopSpeech
       => (Idle(state') /\ ~isSpeaking(World') /\ ~isSpeechPaused(World'))]_vars

\* C4 witness: stop was issued while the platform was paused on an utterance
\* whose promise is still pending.
C4_Witness ==
  /\ stopped /\ synth.paused /\ Idle(state)
  /\ \E u \in Utterances : promise[u] = "pending"

\* C5: every failure of a speakText call whose promise is not yet settled
\* (unsupported platform, error event, speak raising) rejects the promise,
\* and the step that rejects a promise leaves the published state idle with
\* the error message set.
C5_FailureRejectsAndIdles ==
  [][\A u \in Utterances :
       /\ (promise[u] # "rejected" /\ promise'[u] = "rejected")
            => (Idle(state') /\ state'.error = "speech")
       /\ (Delivered(Event(u, "error")) /\ promise[u] = "pending")
            => promise'[u] = "rejected"
       /\ (HandleReadAloud /\ nextId = u /\ ~Started(synth', u))
            => promise'[u] = "rejected"]_vars

\* C5 witness: a speakText call on a supported platform has failed.
C5_Witness ==
  /\ synth.supported /\ Idle(state) /\ state.error = "speech"
  /\ promise[1] = "rejected"

\* C6 as claimed, for the utterance the adapter tracks as current: when its
\* speakText promise settles, on success as well as on error, the tracked
\* state is idle.
C6_TerminalSetsIdle ==
  [][\A u \in Utterances :
       (svc.currentUtterance = u /\ promise[u] = "pending"
        /\ promise'[u] \in {"resolved", "rejected"})
         => Idle(state')]_vars

\* C6 amended: play sets the tracked state to speaking and installs the new
\* utterance; a rejection sets the tracked state to idle at once; a
\* resolution leaves the tracked state as it is, onend having cleared the
\* adapter's bookkeeping, and a poll tick taken while the bookkeeping is
\* cleared publishes idle.
C6_TerminalThenPoller ==
  [][/\ (HandleReadAloud /\ promise'[nextId] = "pending")
          => (state'.isSpeaking /\ ~state'.isPaused
              /\ svc'.currentUtterance = nextId)
     /\ \A u \in Utterances :
          /\ (promise[u] = "pending" /\ promise'[u] = "rejected") => Idle(state')
          /\ (promise[u] = "pending" /\ promise'[u] = "resolved")
               => (state' = state /\ svc' = Cleared
                   /\ ~isSpeaking(World') /\ ~isSpeechPaused(World'))
     /\ (Tick /\ svc = Cleared) => Idle(state')]_vars

\* C6 witness: the promise has resolved while the tracked state still shows
\* speaking.
C6_Witness ==
  \E u \in Utterances :
    promise[u] = "resolved" /\ state.isSpeaking /\ svc = Cleared

\* C7: a promise leaves "pending" only when its utterance's end event is
\* dispatched (resolved) or when its error event is dispatched or its start
\* fails (rejected); pause and resume commands and events never change a
\* promise, and a settled promise never changes again.
C7_SettlesOnlyOnTerminal ==
  [][/\ \A u \in Utterances :
          promise'[u] # promise[u] =>
            \/ promise[u] = "none" /\ HandleReadAloud /\ nextId = u
                 /\ promise'[u] \in {"pending", "rejected"}
            \/ promise[u] = "pending" /\ promise'[u] = "resolved"
                 /\ Delivered(Event(u, "end"))
            \/ promise[u] = "pending" /\ promise'[u] = "rejected"
                 /\ (Delivered(Event(u, "error"))
                     \/ (VoicesChanged /\ synth.onvoiceschanged = u))
     /\ (HandlePauseSpeech \/ HandleResumeSpeech) => promise' = promise
     /\ \A u \in Utterances, t \in {"pause", "resume"} :
          Delivered(Event(u, t)) => promise' = promise]_vars

\* C7 witness: the pause event of the current utterance has been dispatched
\* and its promise is still pending.
C7_Witness ==
  /\ svc.isPaused /\ synth.paused /\ synth.speaking
  /\ synth.events = << >>
  /\ svc.currentUtterance # NoUtterance
  /\ promise[svc.currentUtterance] = "pending"

\* C8: from every reachable state stopSpeaking leaves currentUtterance=null,
\* isPaused=false, isCurrentlySpeaking=false and an empty, silent platform
\* queue, and a second stopSpeaking leaves exactly that state.
C8_StopIdempotent ==
  \A k1 \in CancelSignals, k2 \in CancelSignals :
    LET a == stopSpeaking(World, k1)
        b == stopSpeaking(a, k2)
    IN /\ a.svc = Cleared
       /\ a.synth.queue = << >> /\ ~a.synth.speaking
       /\ b = a

\* C8 witness: stopSpeaking has run on an utterance that was paused while
\* being spoken.
C8_Witness ==
  /\ stopped /\ svc = Cleared /\ synth.queue = << >>
  /\ \E i \in 1..Len(synth.events) : synth.events[i].type = "pause"

\* C9: a pause command pauses the platform and sets isPaused only when the
\* adapter has a current utterance, believes it is speaking and is not
\* paused; in every other adapter state adapter and platform are unchanged.
C9_PauseOnlyWhenSpeaking ==
  [][HandlePauseSpeech =>
       IF synth.supported /\ svc.currentUtterance # NoUtterance
          /\ svc.isCurrentlySpeaking /\ ~svc.isPaused
       THEN \/ svc' = [svc EXCEPT !.isPaused = TRUE] /\ synth' = pause(synth)
            \/ svc' = svc /\ synth' = synth
       ELSE svc' = svc /\ synth' = synth]_vars

\* C9 witness: a pause command has paused the platform.
C9_Witness ==
  /\ ~stopped /\ svc.isPaused /\ synth.paused
  /\ svc.currentUtterance # NoUtterance /\ svc.isCurrentlySpeaking

\* C10: a resume command resumes the platform and clears isPaused only when
\* the adapter has a current utterance it believes paused; in every other
\* adapter state adapter and platform are unchanged.
C10_ResumeOnlyWhenPaused ==
  [][HandleResumeSpeech =>
       IF synth.supported /\ svc.currentUtterance # NoUtterance /\ svc.isPaused
       THEN \/ svc' = [svc EXCEPT !.isPaused = FALSE] /\ synth' = resume(synth)
            \/ svc' = svc /\ synth' = synth
       ELSE svc' = svc /\ synth' = synth]_vars

\* C10 witness: a resume command has resumed a paused utterance.
C10_Witness ==
  /\ ~svc.isPaused /\ ~synth.paused /\ synth.speaking
  /\ svc.currentUtterance # NoUtterance
  /\ \E i \in 1..Len(synth.events) : synth.events[i].type = "resume"

\* C11: a pause command issued while the published state is idle leaves the
\* published state idle.
C11_PauseWhenIdleIsNoOp ==
  [][(HandlePauseSpeech /\ state.insights /\ Idle(state)) => Idle(state')]_vars

\* C12: when the raw state a poll tick samples differs from the published
\* state in either flag, the tick publishes the raw state (and touches no
\* other field of the state).
C12_TickOverwritesWithRaw ==
  LET t == pollTick(state, World)
  IN (state.isSpeaking # isSpeaking(World) \/ state.isPaused # isSpeechPaused(World))
       => /\ t.isSpeaking = isSpeaking(World)
          /\ t.isPaused = isSpeechPaused(World)
          /\ t = [state EXCEPT !.isSpeaking = t.isSpeaking, !.isPaused = t.isPaused]

\* C12 witness: the adapter and the platform report speaking while idle is
\* published (a tick has set idle before the platform began to speak).
C12_Witness ==
  /\ isSpeaking(World) /\ Idle(state)
  /\ synth.events = << >> /\ svc.currentUtterance # NoUtterance

\* C13: a poll tick that samples neither speaking nor paused while speaking
\* or paused is published leaves idle published.
C13_TickResetsToIdle ==
  (~isSpeaking(World) /\ ~isSpeechPaused(World) /\ ~Idle(state))
    => Idle(pollTick(state, World))

\* C13 witness: playback has ended (onend has run) while speaking is still
\* published.
C13_Witness ==
  /\ state.isSpeaking /\ svc = Cleared /\ synth.queue = << >>
  /\ \E u \in Utterances : promise[u] = "resolved"
  /\ ~isSpeaking(World) /\ ~isSpeechPaused(World)

\* C14: handlePauseSpeech calls pauseSpeaking and publishes paused in the
\* same step, and handleResumeSpeech calls resumeSpeaking and publishes
\* speaking in the same step; neither waits for the platform's event.
C14_PauseResumeEager ==
  [][/\ HandlePauseSpeech =>
          /\ state'.isPaused /\ ~state'.isSpeaking
          /\ \E throws \in BOOLEAN : World' = pauseSpeaking(World, throws)
     /\ HandleResumeSpeech =>
          /\ state'.isSpeaking /\ ~state'.isPaused
          /\ \E throws \in BOOLEAN : World' = resumeSpeaking(World, throws)]_vars

\* C14 witness: paused is published while the platform's pause event has
\* not been dispatched yet.
C14_Witness ==
  /\ state.isPaused /\ ~state.isSpeaking /\ svc.isPaused
  /\ synth.events # << >> /\ Head(synth.events).type = "pause"

\* C15: handleStopSpeech calls stopSpeaking and publishes idle in the same
\* step, and publishes idle (with an error message) when stopSpeaking throws.
C15_StopAlwaysIdles ==
  [][/\ HandleStopSpeech =>
          /\ Idle(state')
          /\ \E k \in CancelSignals : World' = stopSpeaking(World, k)
     /\ HandleStopSpeechThrows =>
          /\ Idle(state') /\ state'.error = "stop"]_vars

\* C15 witness: stopSpeaking has thrown while an utterance was in the
\* platform queue, and idle is published next to the error message.
C15_Witness ==
  /\ state.error = "stop" /\ Idle(state)
  /\ svc.currentUtterance # NoUtterance /\ synth.queue # << >>

C17_DeferredStartOnce ==
  \A u \in Utterances :
    Cardinality({i \in 1..Len(synth.queue) : synth.queue[i] = u}) <= 1

\* C18: on a platform without speech synthesis speakText rejects its promise,
\* installs no utterance and leaves the adapter and the platform as they were.
C18_UnsupportedRejects ==
  (~synth.supported /\ nextId <= MaxUtterances) =>
    \A k \in CancelSignals, throws \in BOOLEAN :
      LET w == speakText(World, nextId, k, throws)
      IN /\ w.promise[nextId] = "rejected"
         /\ \A v \in Utterances \ {nextId} : w.promise[v] = promise[v]
         /\ w.svc = svc /\ w.svc.currentUtterance = NoUtterance
         /\ w.synth = synth

\* C18 witness: speakText has been called without speech synthesis: the
\* promise is rejected, the error shows and the adapter is untouched.
C18_Witness ==
  /\ ~synth.supported /\ promise[1] = "rejected" /\ svc = Cleared
  /\ synth.queue = << >> /\ state.error = "speech" /\ Idle(state)

\* C19: when the cleaned form of the text given to speakText is empty, no
\* utterance is installed or handed to the platform and no promise of
\* speakText is pending or resolved.
C19_EmptyInputFails ==
  (state.insights /\ cleanTextForSpeech(insights) = << >>) =>
    /\ svc.currentUtterance = NoUtterance
    /\ synth.queue = << >>
    /\ synth.onvoiceschanged = NoUtterance
    /\ \A u \in Utterances : promise[u] \in {"none", "rejected"}

\* C20: pauseSpeaking, resumeSpeaking and stopSpeaking never throw to their
\* caller, also when the platform call throws: the catch blocks of
\* handlePauseSpeech, handleResumeSpeech and handleStopSpeech never run, so
\* none of their error messages is ever published.
C20_AdapterNeverThrows ==
  state.error \notin {"pause", "resume", "stop"}

\* C21: every step of handleFetchContent and handleGenerateInsights (early
\* return, start, success, failure) leaves isSpeaking and isPaused as they
\* were and leaves the adapter, the platform and the speakText promises
\* alone; a failure changes only the error message and the operation's flag.
C21_CollaboratorsLeavePlayback ==
  [][/\ Collaborate =>
          /\ state'.isSpeaking = state.isSpeaking
          /\ state'.isPaused = state.isPaused
          /\ World' = World
     /\ FetchContentRejects =>
          /\ state'.error # ""
          /\ state' = [state EXCEPT !.error = state'.error, !.isFetching = FALSE]
     /\ GenerateInsightsRejects =>
          /\ state'.error # ""
          /\ state' = [state EXCEPT !.error = state'.error, !.isLoading = FALSE]]_vars

\* C21 witness: a fetch has failed while an utterance is being spoken, and
\* speaking is still published.
C21_Witness ==
  /\ state.error = "fetch failed" /\ ~state.isFetching
  /\ state.isSpeaking /\ ~state.isPaused
  /\ synth.speaking /\ svc.isCurrentlySpeaking

\* C22: a poll tick whose status query throws publishes idle.
C22_QueryThrowsPublishesIdle ==
  synth.supported => Idle(pollTickThrows(state, World))

\* C23: the voice speakText picks is the first English voice with a
\* high-quality name when the list has one, otherwise the first English
\* voice, otherwise the first voice, and none for an empty list; the
\* onvoiceschanged closure picks the same voice.
C23_VoicePreference ==
  io.fn = "selectVoice" =>
    LET vs == io.voices
        Before(i, S) == \A j \in S : i <= j
        best == {i \in 1..Len(vs) : English(vs[i]) /\ HighQuality(vs[i])}
        english == {i \in 1..Len(vs) : English(vs[i])}
    IN /\ best # {} => \E i \in best : Before(i, best) /\ io.voice = vs[i]
       /\ (best = {} /\ english # {}) =>
            \E i \in english : Before(i, english) /\ io.voice = vs[i]
       /\ (english = {} /\ Len(vs) > 0) => io.voice = vs[1]
       /\ Len(vs) = 0 => io.voice = NoVoice
       /\ io.deferred = io.voice

\* C23 witness: a list that begins with a plain English voice and holds a
\* high-quality English voice later: the later one is picked.
C23_Witness ==
  /\ io.fn = "selectVoice" /\ Len(io.voices) >= 2
  /\ English(io.voices[1]) /\ ~HighQuality(io.voices[1])
  /\ io.voice # io.voices[1] /\ HighQuality(io.voice) /\ English(io.voice)

\* C24 as stated: a call whose trimmed content is under the minimum throws
\* the too-short error and sends no request.
C24_TooShortAlways ==
  (io.fn = "generateInsights" /\ Len(trim(io.content)) < MinContentLength) =>
    /\ io.out.outcome = "threw" /\ io.out.requests = 0
    /\ io.out.message = "Content is too short to analyze"

\* C24 amended: a call whose trimmed content is under the minimum sends no
\* request and throws: the too-short error when the key is configured, the
\* not-configured error when the key is missing or the placeholder.
C24_TooShortWhenConfigured ==
  (io.fn = "generateInsights" /\ Len(trim(io.content)) < MinContentLength) =>
    /\ io.out.outcome = "threw" /\ io.out.requests = 0
    /\ io.out.message =
         IF io.apiKey \in {"", Placeholder(io.provider)}
         THEN "API key is not configured" ELSE "Content is too short to analyze"

\* C24 witness: ten letters between blanks and a configured key: too short.
C24_Witness ==
  /\ io.fn = "generateInsights" /\ io.apiKey = "a key"
  /\ io.content = Content(1, 10, 1)
  /\ io.out = Threw(0, "Content is too short to analyze")

\* C25 as stated: 429, 401 and 400 have their own errors and every other
\* status that is not ok gives the upstream error (the body's message or the
\* status line); a missing or placeholder key throws before any request.
C25_StatusKinds ==
  io.fn = "generateInsights" =>
    /\ io.apiKey \in {"", Placeholder(io.provider)} =>
         io.out = Threw(0, "API key is not configured")
    /\ (io.out.requests = 1 /\ io.response.kind = "response" /\ ~Ok(io.response.status)) =>
         /\ io.out.outcome = "threw"
         /\ io.out.message =
              CASE io.response.status = 429 -> "Rate limit exceeded"
                [] io.response.status = 401 -> "Invalid API key"
                [] io.response.status = 400 -> "Invalid request"
                [] OTHER -> IF io.response.body.shape = "error"
                            THEN "error.message" ELSE "API error: status"

\* C25 amended: as stated, but status 403 has an error of its own (access
\* denied) and only the remaining statuses give the upstream error.
C25_StatusKindsWith403 ==
  io.fn = "generateInsights" =>
    /\ io.apiKey \in {"", Placeholder(io.provider)} =>
         io.out = Threw(0, "API key is not configured")
    /\ (io.out.requests = 1 /\ io.response.kind = "response" /\ ~Ok(io.response.status)) =>
         /\ io.out.outcome = "threw"
         /\ io.out.message =
              CASE io.response.status = 429 -> "Rate limit exceeded"
                [] io.response.status = 401 -> "Invalid API key"
                [] io.response.status = 400 -> "Invalid request"
                [] io.response.status = 403 -> "Access denied"
                [] OTHER -> IF io.response.body.shape = "error"
                            THEN "error.message" ELSE "API error: status"

\* C25 witness: a request answered with status 429.
C25_Witness ==
  /\ io.fn = "generateInsights" /\ io.response.kind = "response"
  /\ io.response.status = 429 /\ io.out = Threw(1, "Rate limit exceeded")

\* C26: a call returns only a text that is not blank; an ok response without
\* an error field that has no candidate, or whose first text is empty or
\* blank, makes the call throw.
C26_NeverReturnsBlank ==
  io.fn = "generateInsights" =>
    /\ io.out.outcome = "returned" => Len(trim(io.out.text)) > 0
    /\ (io.out.requests = 1 /\ io.response.kind = "response" /\ Ok(io.response.status)) =>
         /\ io.response.body.shape \in {"no candidates", "empty candidates"} =>
              io.out = Threw(1, "No insights generated")
         /\ (io.response.body.shape = "text" /\ Len(trim(io.response.body.text)) = 0) =>
              io.out = Threw(1, "Empty response")

\* C26 witness: status 200 with a first text of one blank: the call throws.
C26_Witness ==
  /\ io.fn = "generateInsights" /\ io.response.kind = "response"
  /\ io.response.status = 200 /\ io.response.body = [shape |-> "text", text |-> <<" ">>]
  /\ io.out = Threw(1, "Empty response")

\* C27: fetchContentFromUrl with a valid url fetches the proxies in their
\* order and stops at the first whose pass succeeds, returning that pass's
\* text; when every pass fails it throws a message whose last part is the
\* message of the third pass's error ('Unknown error' when that is empty).
C27_FirstSuccessElseLastError ==
  (io.fn = "fetchContentFromUrl" /\ io.url.valid) =>
    LET pass(i) == attempt(ProxyServices[i], io.url, io.answers[i])
        succeeds(i) == pass(i).outcome = "returned"
        all == 1..Len(ProxyServices)
    IN  /\ \A i \in all :
             (succeeds(i) /\ \A j \in 1..(i - 1) : ~succeeds(j)) =>
               /\ io.out.outcome = "returned"
               /\ io.out.tried = SubSeq(ProxyServices, 1, i)
               /\ io.out.length = PrefixLength + pass(i).length
        /\ (\A i \in all : ~succeeds(i)) =>
             /\ io.out.outcome = "threw"
             /\ io.out.tried = ProxyServices
             /\ io.out.message[Len(io.out.message)] =
                  IF pass(Len(ProxyServices)).message = "" THEN "Unknown error"
                  ELSE pass(Len(ProxyServices)).message

\* C27 witness: codetabs answers not ok, cors-anywhere and allorigins would
\* both deliver a page: the text of cors-anywhere is returned and allorigins
\* is not fetched.
C27_Witness ==
  /\ io.fn = "fetchContentFromUrl" /\ io.url.valid
  /\ io.answers[1].kind = "not ok"
  /\ attempt("cors-anywhere", io.url, io.answers[2]).outcome = "returned"
  /\ attempt("allorigins", io.url, io.answers[3]).outcome = "returned"
  /\ io.out.outcome = "returned"
  /\ io.out.tried = <<"codetabs", "cors-anywhere">>

\* C28: extractTextFromHtml returns only a text of at least the minimum
\* length, and throws for a page whose body holds less meaningful prose than
\* that; the text in a result of fetchContentFromUrl has that length too.
C28_ExtractionMeetsMinimum ==
  /\ io.fn = "extractTextFromHtml" =>
       /\ io.out.outcome = "returned" => io.out.length >= MinCleanedLength
       /\ joinedLength(SelectSeq(bodyText(io.page.containers, io.page.outside),
                                 meaningful)) < MinCleanedLength
            => io.out.outcome = "threw"
  /\ (io.fn = "fetchContentFromUrl" /\ io.out.outcome = "returned") =>
       io.out.length - PrefixLength >= MinCleanedLength

\* C28 witness: a page whose only meaningful sentence has one character less
\* than the minimum: extractTextFromHtml throws.
C28_Witness ==
  /\ io.fn = "extractTextFromHtml"
  /\ io.page.containers = << >>
  /\ io.page.outside = Text(Sentence(MinCleanedLength - 1, 20, FALSE),
                            Sentence(10, 2, FALSE), 0)
  /\ io.out = Failed("Extracted content is too short to analyze meaningfully")

\* t has the characters of w, in their order
RECURSIVE Keeps(_, _)
Keeps(t, w) ==
  IF w = << >> THEN TRUE
  ELSE IF t = << >> THEN FALSE
  ELSE IF Head(t) = Head(w) THEN Keeps(Tail(t), Tail(w))
  ELSE Keeps(Tail(t), w)

\* t has a markdown link in it: the link rule would change it
HasLink(t) == linksToText(t, 1) # t

\* C29 (first part): the output of cleanTextForSpeech has no '#', no '*' and
\* no backtick.
C29_NoMarks ==
  io.fn = "cleanTextForSpeech" =>
    \A i \in 1..Len(io.out) : io.out[i] \notin {"#", "*", "backtick"}

\* C29 (last part): the output of cleanTextForSpeech has the letters of the
\* words of its input, in their order.
C29_KeepsWords ==
  io.fn = "cleanTextForSpeech" => Keeps(io.out, words(io.pieces))

\* C29: for a text of headers, bold and italic markers, code fences and
\* links, the output of cleanTextForSpeech has no '#', no '*', no backtick
\* and no markdown link, and keeps the letters of the words of the input.
C29_CleanedOfMarkdown ==
  io.fn = "cleanTextForSpeech" =>
    /\ \A i \in 1..Len(io.out) : io.out[i] \notin {"#", "*", "backtick"}
    /\ ~HasLink(io.out)
    /\ Keeps(io.out, words(io.pieces))

\* C30: cleanTextForSpeech of the scenario's text is "Title. Some bold text."
C30_Scenario ==
  (io.fn = "cleanTextForSpeech" /\ io.pieces = <<Scenario>>) =>
    io.out = <<"T", "i", "t", "l", "e", ".", " ", "S", "o", "m", "e", " ",
               "b", "o", "l", "d", " ", "t", "e", "x", "t", ".">>

\* C30 witness: the scenario's text has been cleaned, and nothing of its
\* header marker, its emphasis markers and its blank line is left.
C30_Witness ==
  /\ io.fn = "cleanTextForSpeech" /\ io.pieces = <<Scenario>>
  /\ Len(io.out) = 22
  /\ \A i \in 1..Len(io.out) : io.out[i] \notin {"#", "*", "\n"}

\* C31 (without the nested links of C29): a cleaned text that has no markdown
\* link in it is cleaned to itself.
C31_IdempotentWithoutLinks ==
  (io.fn = "cleanTextForSpeech" /\ ~HasLink(io.out)) =>
    cleanTextForSpeech(io.out) = io.out

\* C31: cleanTextForSpeech is idempotent: cleaning a cleaned text gives that
\* text again (being an operator of the text alone, it reads and writes no
\* adapter state and gives the same output for the same input).
C31_Idempotent ==
  io.fn = "cleanTextForSpeech" => cleanTextForSpeech(io.out) = io.out

\* C32: when stopSpeaking has run while an utterance waited for the voice
\* list, a voices-changed event after it hands nothing to the platform and
\* leaves the adapter not speaking.
C32_CancelledNeverStarts ==
  [][(stopped /\ synth.onvoiceschanged # NoUtterance /\ VoicesChanged)
       => (synth'.queue = synth.queue /\ ~svc'.isCurrentlySpeaking)]_vars

\* C33: in every reachable state the published flags isSpeaking and isPaused
\* are not both true: the published state is idle, speaking or paused.
C33_PublishedExclusive == ~(state.isSpeaking /\ state.isPaused)

\* C33 witness: the utterance is paused in the adapter and in the platform
\* and the published state is paused, not speaking.
C33_Witness ==
  /\ svc.isPaused /\ svc.isCurrentlySpeaking /\ synth.speaking /\ synth.paused
  /\ state.isPaused /\ ~state.isSpeaking

\* C34: with no command and no platform event in between, one poll tick
\* leaves the sampled raw state published, whatever was published before,
\* and a second tick changes nothing; a tick that finds the published state
\* equal to the raw state leaves the whole state as it is.
C34_PollerConverges ==
  LET once == pollTick(state, World)
      agree(st) == st.isSpeaking = isSpeaking(World) /\ st.isPaused = isSpeechPaused(World)
  IN /\ agree(once)
     /\ pollTick(once, World) = once
     /\ agree(state) => once = state

\* C34 witness: paused is published while the adapter has been cleared by
\* the end of the utterance: the next tick has a difference to remove.
C34_Witness ==
  /\ state.isPaused /\ svc = Cleared /\ ~synth.speaking
  /\ \E u \in Utterances : promise[u] = "resolved"

\* C35: while the utterance of the last play is installed and its promise is
\* pending (no stop since, no terminal event yet) and speaking is published,
\* a poll tick does not publish idle.
C35_NoIdleBeforeTerminal ==
  [][(/\ Tick
      /\ state.isSpeaking /\ ~stopped
      /\ svc.currentUtterance # NoUtterance
      /\ promise[svc.currentUtterance] = "pending")
       => ~Idle(state')]_vars

\* C36: the buttons rendered depend on the published state alone: Pause and
\* Stop when speaking and not paused is published, Resume and Stop when
\* paused is published, Read Aloud when neither is, and none without an
\* insight text; Read Aloud is not rendered while speaking or paused is
\* published.
C36_ControlsFollowPublished ==
  LET offered == renderSpeechControls(state, insights)
  IN /\ "Pause" \in offered => (state.isSpeaking /\ ~state.isPaused /\ "Stop" \in offered)
     /\ "Resume" \in offered => (state.isPaused /\ "Stop" \in offered)
     /\ "Stop" \in offered => (state.isSpeaking \/ state.isPaused)
     /\ "Read Aloud" \in offered => (Idle(state) /\ offered = {"Read Aloud"})
     /\ insights = << >> => offered = {}
     /\ insights # << >> => offered # {}
     /\ \A st \in [isSpeaking : BOOLEAN, isPaused : BOOLEAN] :
          (st.isSpeaking = state.isSpeaking /\ st.isPaused = state.isPaused)
            => renderSpeechControls(st, insights) = offered

\* C36 witness: an insight text is there and paused is published: Resume and
\* Stop are rendered.
C36_Witness ==
  /\ insights # << >> /\ state.isPaused /\ svc.isPaused
  /\ renderSpeechControls(state, insights) = {"Resume", "Stop"}

\* C37: handleFetchContent and handleGenerateInsights set their loading flag
\* only on the path that calls the collaborator; each way the collaborator's
\* promise settles resets the flag, so no flag is set when no call of its
\* operation is pending; with a blank input the flag is left as it was, an
\* error message is set and the collaborator is not called.
C37_LoadingFlagsSettle ==
  [][/\ HandleFetchContent => (state'.isFetching /\ pending'.fetch = pending.fetch + 1)
     /\ HandleGenerateInsights => (state'.isLoading /\ pending'.analyze = pending.analyze + 1)
     /\ (FetchContentResolves \/ FetchContentRejects) => ~state'.isFetching
     /\ (GenerateInsightsResolves \/ GenerateInsightsRejects) => ~state'.isLoading
     /\ HandleFetchContentBlank =>
          /\ state'.isFetching = state.isFetching /\ state'.error # ""
          /\ pending' = pending
     /\ HandleGenerateInsightsBlank =>
          /\ state'.isLoading = state.isLoading /\ state'.error # ""
          /\ pending' = pending
     /\ (state'.isFetching /\ ~state.isFetching) => HandleFetchContent
     /\ (state'.isLoading /\ ~state.isLoading) => HandleGenerateInsights
     /\ pending'.fetch = 0 => ~state'.isFetching
     /\ pending'.analyze = 0 => ~state'.isLoading]_vars

\* C37 witness: generateInsights has rejected: its error shows, no call is
\* pending and the loading flag is reset.
C37_Witness ==
  /\ state.error = "insights failed" /\ pending.analyze = 0 /\ ~state.isLoading

\* C38: from an adapter with a current utterance, speaking and not paused,
\* pauseSpeaking then resumeSpeaking leave the adapter as it was, the
\* platform has received one pause and then one resume, and a second
\* pauseSpeaking before the resume changes nothing and calls nothing.
C38_PauseResumeRestores ==
  (svc.currentUtterance # NoUtterance /\ svc.isCurrentlySpeaking /\ ~svc.isPaused) =>
    LET w0 == [World EXCEPT !.synth = Watched(@)]
        w1 == pauseSpeaking(w0, FALSE)
        w2 == resumeSpeaking(w1, FALSE)
    IN /\ w1.svc = [svc EXCEPT !.isPaused = TRUE]
       /\ w1.synth.calls = <<"pause">>
       /\ \A throws \in BOOLEAN : pauseSpeaking(w1, throws) = w1
       /\ w2.svc = svc
       /\ w2.synth.calls = <<"pause", "resume">>
       /\ w2.synth.paused = FALSE
       /\ w2.promise = promise

\* C38 witness: an utterance has been paused and resumed: the adapter is
\* speaking and not paused again, and the platform has queued the resume
\* event for the utterance.
C38_Witness ==
  /\ svc.currentUtterance # NoUtterance /\ svc.isCurrentlySpeaking /\ ~svc.isPaused
  /\ synth.speaking /\ ~synth.paused
  /\ synth.events # << >> /\ Head(synth.events).type = "resume"

====
